---- MODULE Spec2Model ----
(***************************************************************************)
(* Model of the sqlite-demo MCP tool host (src/server.py) and of the       *)
(* LangChain reasoning client that drives it (src/langchain_client.py).    *)
(*                                                                         *)
(* The store demo.db is a map from table names to tables.  A row is        *)
(* <<id, v>>: the INTEGER PRIMARY KEY and the remaining columns taken as   *)
(* one payload.  A SQL string is abstracted to the statement it denotes    *)
(* (surrounding whitespace is immaterial, so query.strip() in the client   *)
(* leaves the statement unchanged).                                        *)
(***************************************************************************)
EXTENDS Integers, Sequences, FiniteSets, TLC

\* ---------------------------------------------------------------- bounds
MaxId == 2
MaxOpen == 1
MaxTurns == 2

Ids == 1..MaxId
TableNames == {"people", "car"}
\* Row payloads a client inserts: people rows and car rows.
Vals(t) == IF t = "people" THEN {"John", "Alice"} ELSE {"Ford"}

\* ------------------------------------------------------------ statements
Stmt(k, t, id, v) == [k |-> k, t |-> t, id |-> id, v |-> v]

Insert(t, v) == Stmt("insert", t, 0, v)
InsertId(t, id, v) == Stmt("insertid", t, id, v)
Delete(t, id) == Stmt("delete", t, id, "")
Drop(t) == Stmt("drop", t, 0, "")
Create(t) == Stmt("create", t, 0, "")
CreateIfNotExists(t) == Stmt("createifne", t, 0, "")
Select(t) == Stmt("select", t, 0, "")
Malformed == Stmt("malformed", "", 0, "")

Queries ==
    UNION {{Insert(t, v) : v \in Vals(t)} : t \in TableNames}
    \cup UNION {{InsertId(t, i, v) : i \in Ids, v \in Vals(t)} : t \in TableNames}
    \cup {Delete(t, i) : t \in TableNames, i \in Ids}
    \cup {Drop(t) : t \in TableNames}
    \cup {Create(t) : t \in TableNames}
    \cup {CreateIfNotExists(t) : t \in TableNames}
    \cup {Select(t) : t \in TableNames}
    \cup {Malformed}

\* read_data's default argument
DefaultReadQuery == Select("people")

IsDML(q) == q.k \in {"insert", "insertid", "delete"}

\* ----------------------------------------------------------------- store
NoTable == [exists |-> FALSE, rows |-> {}, seq |-> 0]
EmptyTable == [exists |-> TRUE, rows |-> {}, seq |-> 0]

\* Only the default table is declared AUTOINCREMENT.
AutoIncrement(t) == t = "people"

MaxOf(S) == IF S = {} THEN 0 ELSE CHOOSE m \in S : \A x \in S : x <= m

RowIds(tbl) == {r[1] : r \in tbl.rows}

\* The id SQLite gives a row inserted without one.
NextId(t, tbl) ==
    IF AutoIncrement(t)
    THEN MaxOf(RowIds(tbl) \cup {tbl.seq}) + 1
    ELSE MaxOf(RowIds(tbl)) + 1

RECURSIVE RowsInOrder(_)
RowsInOrder(S) ==
    IF S = {} THEN <<>>
    ELSE LET m == CHOOSE r \in S : \A x \in S : r[1] <= x[1]
         IN <<m>> \o RowsInOrder(S \ {m})

Range(s) == {s[i] : i \in DOMAIN s}

\* CREATE TABLE IF NOT EXISTS people (...); conn.commit()
init_db_skip(db) == db

init_db(db) ==
    IF db["people"].exists THEN db ELSE [db EXCEPT !["people"] = EmptyTable]

Failed(db) == [db |-> db, ok |-> FALSE, rows |-> <<>>]
Done(db, rows) == [db |-> db, ok |-> TRUE, rows |-> rows]

\* cursor.execute(query) followed by what fetchall() would give
Execute(db, q) ==
    IF q.k = "malformed" THEN Failed(db)
    ELSE LET tbl == db[q.t] IN
    CASE q.k = "insert" ->
           IF ~tbl.exists THEN Failed(db)
           ELSE LET id == NextId(q.t, tbl)
                IN Done([db EXCEPT ![q.t] =
                            [@ EXCEPT !.rows = @ \cup {<<id, q.v>>},
                                      !.seq = IF AutoIncrement(q.t) THEN id ELSE @]],
                        <<>>)
      [] q.k = "insertid" ->
           IF ~tbl.exists \/ q.id \in RowIds(tbl) THEN Failed(db)
           ELSE Done([db EXCEPT ![q.t] =
                         [@ EXCEPT !.rows = @ \cup {<<q.id, q.v>>},
                                   !.seq = IF AutoIncrement(q.t)
                                           THEN MaxOf({@, q.id}) ELSE @]],
                     <<>>)
      [] q.k = "delete" ->
           IF ~tbl.exists THEN Failed(db)
           ELSE Done([db EXCEPT ![q.t] =
                         [@ EXCEPT !.rows = {r \in @ : r[1] # q.id}]],
                     <<>>)
      [] q.k = "drop" ->
           IF ~tbl.exists THEN Failed(db)
           ELSE Done([db EXCEPT ![q.t] = NoTable], <<>>)
      [] q.k = "create" ->
           IF tbl.exists THEN Failed(db)
           ELSE Done([db EXCEPT ![q.t] = EmptyTable], <<>>)
      [] q.k = "createifne" ->
           IF tbl.exists THEN Done(db, <<>>)
           ELSE Done([db EXCEPT ![q.t] = EmptyTable], <<>>)
      [] q.k = "select" ->
           IF ~tbl.exists THEN Failed(db)
           ELSE Done(db, RowsInOrder(tbl.rows))

\* conn.close() with no commit: an open transaction (the sqlite3 module
\* begins one before INSERT/DELETE only) is rolled back; DDL ran in
\* autocommit mode and stays.
close_rollback_all(committed, working, q) == committed

close_uncommitted(committed, working, q) ==
    IF IsDML(q) THEN committed ELSE working

\* ----------------------------------------------------- environment faults
\* "connect": sqlite3.connect raises; "create": the CREATE TABLE or commit
\* in init_db raises; "execute": cursor.execute(query) raises sqlite3.Error
\* for a reason outside the statement (locked database, I/O error).
Faults == {"none", "connect", "create", "execute"}

Result(db, open, path, ret, rows) ==
    [db |-> db, open |-> open, path |-> path, ret |-> ret, rows |-> rows]

\* ------------------------------------------------------------- tool host
add_data_nocommit(db, open, q, fault) ==
    IF fault = "connect" THEN Result(db, open, "raise", FALSE, <<>>)
    ELSE IF fault = "create" THEN Result(db, open + 1, "raise", FALSE, <<>>)
    ELSE LET d0 == init_db(db)
             r == IF fault = "execute" THEN Failed(d0) ELSE Execute(d0, q)
         IN IF r.ok
            THEN Result(close_uncommitted(d0, r.db, q), open, "ok", TRUE, <<>>)
            ELSE Result(d0, open, "except", FALSE, <<>>)

add_data(db, open, q, fault) ==
    IF fault = "connect" THEN Result(db, open, "raise", FALSE, <<>>)
    ELSE IF fault = "create" THEN Result(db, open + 1, "raise", FALSE, <<>>)
    ELSE LET d0 == init_db(db)
             r == IF fault = "execute" THEN Failed(d0) ELSE Execute(d0, q)
         IN IF r.ok
            THEN Result(r.db, open, "ok", TRUE, <<>>)
            ELSE Result(d0, open, "except", FALSE, <<>>)

read_data(db, open, q, fault) ==
    IF fault = "connect" THEN Result(db, open, "raise", FALSE, <<>>)
    ELSE IF fault = "create" THEN Result(db, open + 1, "raise", FALSE, <<>>)
    ELSE LET d0 == init_db(db)
             r == IF fault = "execute" THEN Failed(d0) ELSE Execute(d0, q)
         IN IF r.ok
            THEN Result(close_uncommitted(d0, r.db, q), open, "ok", FALSE, r.rows)
            ELSE Result(d0, open, "except", FALSE, <<>>)

create_table(db, open, q, fault) ==
    IF fault = "connect" THEN Result(db, open, "raise", FALSE, <<>>)
    ELSE IF fault = "create" THEN Result(db, open + 1, "raise", FALSE, <<>>)
    ELSE LET d0 == init_db(db)
             r == IF fault = "execute" THEN Failed(d0) ELSE Execute(d0, q)
         IN IF r.ok
            THEN Result(close_uncommitted(d0, r.db, q), open, "ok", FALSE, r.rows)
            ELSE Result(d0, open, "except", FALSE, <<>>)

Invoke(op, db, open, q, fault) ==
    CASE op = "add_data" -> add_data(db, open, q, fault)
      [] op = "read_data" -> read_data(db, open, q, fault)
      [] op = "create_table" -> create_table(db, open, q, fault)

\* The model keeps ids within Ids and leaked connections within MaxOpen.
Feasible(h, q, fault) ==
    /\ fault = "create" => h.open < MaxOpen
    /\ (q.k = "insert" /\ init_db(h.db)[q.t].exists)
          => NextId(q.t, init_db(h.db)[q.t]) <= MaxId

\* ------------------------------------------------------------------ state
VARIABLES
    db,            \* demo.db: table name -> table
    open,          \* connections opened by finished calls and never closed
    last,          \* the last tool call the host served, and what it gave
    added,         \* history: rows add_data reported inserted, not deleted since
    held,          \* history: people has held a row since it was created
    firstInsert,   \* history: the last call was add_data inserting into a people table that never held a row
    created,       \* history: table the last call issued a CREATE TABLE for, if new
    afterCreate,   \* history: value of created before the last call
    pc,            \* main(): "start", "chat", "aborted", "exited"
    probes,        \* reachability probes sent
    probe,         \* what the probe met
    get_tools_calls, \* calls of mcp_client.get_tools()
    init_error,    \* what initialize_agent raised, if anything
    mcp_tools,     \* tools discovered by get_tools(), in the host's order
    agent_executor,\* whether the AgentExecutor was built
    chat_history,  \* self.chat_history
    turn           \* the last process_message call

hostVars == <<db, open, last, added, held, firstInsert, created, afterCreate>>
clientVars == <<pc, probes, probe, get_tools_calls, init_error, mcp_tools,
                agent_executor, chat_history, turn>>
vars == <<db, open, last, added, held, firstInsert, created, afterCreate,
          pc, probes, probe, get_tools_calls, init_error, mcp_tools,
          agent_executor, chat_history, turn>>

NoCall == [op |-> "none", q |-> Malformed, path |-> "none", ret |-> FALSE, rows |-> <<>>]

HostState ==
    [db |-> db, open |-> open, last |-> last, added |-> added, held |-> held,
     firstInsert |-> firstInsert, created |-> created, afterCreate |-> afterCreate]

SetHost(h) ==
    /\ db' = h.db
    /\ open' = h.open
    /\ last' = h.last
    /\ added' = h.added
    /\ held' = h.held
    /\ firstInsert' = h.firstInsert
    /\ created' = h.created
    /\ afterCreate' = h.afterCreate

\* Host state h after the call op(q) that gave r, with the history kept
\* for the properties.
Served(h, op, q, r) ==
    LET committed == op = "add_data" /\ r.path = "ok"
        kept == IF r.path = "ok" /\ q.k = "drop"
                THEN {e \in h.added : e[1] # q.t}
                ELSE IF committed /\ q.k = "delete"
                THEN {e \in h.added : ~(e[1] = q.t /\ e[2] = q.id)}
                ELSE h.added
        new == IF committed /\ q.k = "insertid" THEN {<<q.t, q.id, q.v>>}
               ELSE IF committed /\ q.k = "insert"
               THEN {<<q.t, row[1], row[2]>> :
                        row \in r.db[q.t].rows \ init_db(h.db)[q.t].rows}
               ELSE {}
    IN [db |-> r.db,
        open |-> r.open,
        last |-> [op |-> op, q |-> q, path |-> r.path, ret |-> r.ret, rows |-> r.rows],
        added |-> kept \cup new,
        held |-> IF r.path = "ok" /\ q = Drop("people") THEN FALSE
                 ELSE IF committed /\ q.k \in {"insert", "insertid"} /\ q.t = "people"
                 THEN TRUE
                 ELSE h.held,
        firstInsert |-> committed /\ q.k = "insert" /\ q.t = "people" /\ ~h.held,
        created |-> IF op \in {"add_data", "create_table"}
                       /\ q.k \in {"create", "createifne"} /\ ~h.db[q.t].exists
                    THEN q.t ELSE "none",
        afterCreate |-> h.created]

\* One tool call served by the host, from host state h.
HostStep(h, op, q, fault) == Served(h, op, q, Invoke(op, h.db, h.open, q, fault))

Obs(kind, ret, table) == [kind |-> kind, ret |-> ret, table |-> table]

NoTurn ==
    [input |-> "", action |-> "none", action_input |-> Malformed,
     hostOp |-> "none", arg |-> Malformed, calls |-> 0, invocation |-> "none",
     ret |-> FALSE, rows |-> <<>>, obs |-> Obs("none", FALSE, <<>>),
     result |-> "none", output |-> "", reply |-> ""]

Init ==
    /\ db = [t \in TableNames |-> NoTable]
    /\ open = 0
    /\ last = NoCall
    /\ added = {}
    /\ held = FALSE
    /\ firstInsert = FALSE
    /\ created = "none"
    /\ afterCreate = "none"
    /\ pc = "start"
    /\ probes = 0
    /\ probe = "none"
    /\ get_tools_calls = 0
    /\ init_error = "none"
    /\ mcp_tools = <<>>
    /\ agent_executor = FALSE
    /\ chat_history = <<>>
    /\ turn = NoTurn

\* Tool calls arriving at the host from any MCP client, the store healthy.
AddData ==
    /\ \E q \in Queries :
        /\ Feasible(HostState, q, "none")
        /\ SetHost(HostStep(HostState, "add_data", q, "none"))
    /\ UNCHANGED clientVars

ReadData ==
    /\ \E q \in Queries :
        /\ Feasible(HostState, q, "none")
        /\ SetHost(HostStep(HostState, "read_data", q, "none"))
    /\ UNCHANGED clientVars

CreateTable ==
    /\ \E q \in Queries :
        /\ Feasible(HostState, q, "none")
        /\ SetHost(HostStep(HostState, "create_table", q, "none"))
    /\ UNCHANGED clientVars

Next == AddData \/ ReadData \/ CreateTable

Spec == Init /\ [][Next]_vars

\* Tool calls that meet a fault of the store.  The statement is not what
\* decides such a call, so a few statements stand for all.
StoreFaults == Faults \ {"none"}
FaultQueries == {Malformed, DefaultReadQuery, Insert("people", "John")}

AddDataFault ==
    /\ \E q \in FaultQueries, f \in StoreFaults :
        /\ Feasible(HostState, q, f)
        /\ SetHost(HostStep(HostState, "add_data", q, f))
    /\ UNCHANGED clientVars

ReadDataFault ==
    /\ \E q \in FaultQueries, f \in StoreFaults :
        /\ Feasible(HostState, q, f)
        /\ SetHost(HostStep(HostState, "read_data", q, f))
    /\ UNCHANGED clientVars

CreateTableFault ==
    /\ \E q \in FaultQueries, f \in StoreFaults :
        /\ Feasible(HostState, q, f)
        /\ SetHost(HostStep(HostState, "create_table", q, f))
    /\ UNCHANGED clientVars

FaultNext ==
    \/ AddData \/ ReadData \/ CreateTable
    \/ AddDataFault \/ ReadDataFault \/ CreateTableFault

FaultSpec == Init /\ [][FaultNext]_vars

\* ------------------------------------------------------ reasoning client
max_iterations_two == 1 + 1

\* AgentExecutor(max_iterations=1, early_stopping_method="force")
max_iterations == 1

\* rows = [result[i:i+4] for i in range(0, len(result), 4)]
RowWidth == 4

\* The host's tools in the order server.py registers them.
RegisteredTools == <<"add_data", "read_data", "create_table">>

\* Names of self.tools.
ToolNames == {"add_data", "read_data", "create_table"}

ProbeOutcomes == {"200", "503", "ReadTimeout", "ConnectTimeout", "ConnectError"}

check_server_connection_any(p) == TRUE

check_server_connection(p) == p = "200" \/ p = "ReadTimeout"

InitializeAgent ==
    /\ pc = "start"
    /\ \E p \in ProbeOutcomes, discovery \in {"ok", "error"} :
        /\ probes' = probes + 1
        /\ probe' = p
        /\ IF ~check_server_connection(p)
           THEN /\ init_error' = "ConnectionError"
                /\ pc' = "aborted"
                /\ UNCHANGED <<get_tools_calls, mcp_tools, agent_executor>>
           ELSE /\ get_tools_calls' = get_tools_calls + 1
                /\ IF discovery = "error"
                   THEN /\ init_error' = "get_tools"
                        /\ pc' = "aborted"
                        /\ UNCHANGED <<mcp_tools, agent_executor>>
                   ELSE /\ init_error' = "none"
                        /\ mcp_tools' = RegisteredTools
                        /\ agent_executor' = TRUE
                        /\ pc' = "chat"
    /\ UNCHANGED <<chat_history, turn>>
    /\ UNCHANGED hostVars

\* What the language model can answer in one step.
UnknownTool == "drop_table"

AgentQueries ==
    {Insert("people", "John"), CreateIfNotExists("car"), Select("people"), Malformed}

Plan(kind, tool, input) == [kind |-> kind, tool |-> tool, input |-> input]

LLMOutputs ==
    {Plan("final", "none", Malformed), Plan("unparseable", "none", Malformed),
     Plan("error", "none", Malformed)}
    \cup {Plan("action", UnknownTool, Drop("car"))}
    \cup {Plan("action", n, q) : n \in ToolNames, q \in AgentQueries}

\* What the host can meet while serving the agent's call; a call that raises
\* on the host comes back to the wrapper as an exception.
InvokeFaults == {"none", "connect"}

Min(a, b) == IF a < b THEN a ELSE b

Chunks(s, n) ==
    [k \in 1..((Len(s) + n - 1) \div n) |->
        SubSeq(s, (k - 1) * n + 1, Min(k * n, Len(s)))]

Wrapped(h, op, invocation, obs) ==
    [h |-> h, op |-> op, invocation |-> invocation, obs |-> obs]

add_data_answer_notry(op, h2) ==
    IF h2.last.path = "raise"
    THEN Wrapped(h2, op, "raised", Obs("raised", FALSE, <<>>))
    ELSE Wrapped(h2, op, "returned", Obs("value", h2.last.ret, h2.last.rows))

\* add_data_wrapper's try/except around the answer of the invoked tool
add_data_answer(op, h2) ==
    IF h2.last.path = "raise"
    THEN Wrapped(h2, op, "raised", Obs("Add error", FALSE, <<>>))
    ELSE Wrapped(h2, op, "returned", Obs("value", h2.last.ret, h2.last.rows))

\* read_data_wrapper's try/except, "No data found." and the table
read_data_answer(op, h2) ==
    IF h2.last.path = "raise"
    THEN Wrapped(h2, op, "raised", Obs("Read error", FALSE, <<>>))
    ELSE IF h2.last.rows = <<>>
    THEN Wrapped(h2, op, "returned", Obs("No data found.", FALSE, <<>>))
    ELSE Wrapped(h2, op, "returned",
                 Obs("table", FALSE, Chunks(h2.last.rows, RowWidth)))

\* await mcp_tools[0].ainvoke({"query": query.strip()})
add_data_wrapper(h, mcp, q, fault) ==
    add_data_answer(mcp[1], HostStep(h, mcp[1], q, fault))

\* await mcp_tools[1].ainvoke({"query": query.strip()})
read_data_wrapper(h, mcp, q, fault) ==
    read_data_answer(mcp[2], HostStep(h, mcp[2], q, fault))

\* self.tools: the coroutine behind each tool name
Coroutine(name, h, mcp, q, fault) ==
    CASE name = "add_data" -> add_data_wrapper(h, mcp, q, fault)
      [] name = "read_data" -> read_data_wrapper(h, mcp, q, fault)
      [] name = "create_table" -> add_data_wrapper(h, mcp, q, fault)

StartTurn(h, user_input) ==
    [h |-> h, feasible |-> TRUE, turn |-> [NoTurn EXCEPT !.input = user_input]]

\* The executor's state after the tool chosen by plan p answered w.
Acted(st, p, w, fault) ==
    [h |-> w.h,
     feasible |-> st.feasible /\ Feasible(st.h, p.input, fault),
     turn |-> [st.turn EXCEPT !.action = p.tool,
                              !.action_input = p.input,
                              !.hostOp = w.op,
                              !.arg = w.h.last.q,
                              !.calls = @ + 1,
                              !.invocation = w.invocation,
                              !.ret = w.h.last.ret,
                              !.rows = w.h.last.rows,
                              !.obs = w.obs]]

\* agent_executor.ainvoke: at most max_iterations steps, then a forced stop.
RECURSIVE RunAgent(_, _, _, _, _)
RECURSIVE Observe(_, _, _, _, _)
RunAgent(i, st, plans, mcp, fault) ==
    IF i > max_iterations
    THEN [st EXCEPT !.turn.result = "output", !.turn.output = "stopped"]
    ELSE CASE plans[i].kind = "error" -> [st EXCEPT !.turn.result = "raise"]
           [] plans[i].kind = "final" ->
                [st EXCEPT !.turn.result = "output", !.turn.output = "final"]
           [] plans[i].kind = "unparseable" ->
                Observe(i,
                        [st EXCEPT !.turn.obs = Obs("Invalid or incomplete response", FALSE, <<>>)],
                        plans, mcp, fault)
           [] plans[i].kind = "action" /\ plans[i].tool \notin ToolNames ->
                Observe(i,
                        [st EXCEPT !.turn.action = plans[i].tool,
                                   !.turn.action_input = plans[i].input,
                                   !.turn.obs = Obs("not a valid tool", FALSE, <<>>)],
                        plans, mcp, fault)
           [] plans[i].kind = "action" /\ plans[i].tool \in ToolNames ->
                Observe(i,
                        Acted(st, plans[i],
                              Coroutine(plans[i].tool, st.h, mcp, plans[i].input, fault),
                              fault),
                        plans, mcp, fault)

\* A tool that raised ends the run; otherwise the next iteration starts.
Observe(i, st, plans, mcp, fault) ==
    IF st.turn.obs.kind = "raised"
    THEN [st EXCEPT !.turn.result = "raise"]
    ELSE RunAgent(i + 1, st, plans, mcp, fault)

Human(content) == [role |-> "human", content |-> content]
AI(content) == [role |-> "ai", content |-> content]

process_message_early_append(user_input, plans, fault, has_output) ==
    \E st \in {RunAgent(1, StartTurn(HostState, user_input), plans, mcp_tools, fault)} :
       /\ st.feasible
       /\ SetHost(st.h)
       /\ Len(chat_history) < 2 * MaxTurns
       /\ IF st.turn.result = "raise"
          THEN /\ turn' = [st.turn EXCEPT !.reply = "Processing error"]
               /\ chat_history' = chat_history \o <<Human(user_input)>>
          ELSE IF has_output
          THEN /\ chat_history' = chat_history \o <<Human(user_input), AI(st.turn.output)>>
               /\ turn' = [st.turn EXCEPT !.reply = st.turn.output]
          ELSE /\ turn' = [st.turn EXCEPT !.result = "no output",
                                          !.reply = "Agent could not determine a valid result."]
               /\ chat_history' = chat_history \o <<Human(user_input)>>

process_message(user_input, plans, fault, has_output) ==
    \E st \in {RunAgent(1, StartTurn(HostState, user_input), plans, mcp_tools, fault)} :
       /\ st.feasible
       /\ SetHost(st.h)
       /\ IF st.turn.result = "raise"
          THEN /\ turn' = [st.turn EXCEPT !.reply = "Processing error"]
               /\ UNCHANGED chat_history
          ELSE IF has_output
          THEN /\ Len(chat_history) < 2 * MaxTurns
               /\ chat_history' = chat_history \o <<Human(user_input), AI(st.turn.output)>>
               /\ turn' = [st.turn EXCEPT !.reply = st.turn.output]
          ELSE /\ turn' = [st.turn EXCEPT !.result = "no output",
                                          !.reply = "Agent could not determine a valid result."]
               /\ UNCHANGED chat_history

Lines == {"show people", "exit", "Exit"}

Lower(s) == IF s = "Exit" THEN "exit" ELSE s

\* One round of interactive_chat's loop answering a question.
ChatTurn ==
    /\ pc = "chat"
    /\ \E line \in Lines, plans \in [1..max_iterations -> LLMOutputs] :
       \E fault \in IF \E i \in DOMAIN plans : plans[i].tool \in ToolNames
                     THEN InvokeFaults ELSE {"none"},
          has_output \in BOOLEAN :
        /\ Lower(line) # "exit"
        /\ process_message(line, plans, fault, has_output)
    /\ UNCHANGED <<pc, probes, probe, get_tools_calls, init_error, mcp_tools, agent_executor>>

\* The round that reads "exit".
Exit ==
    /\ pc = "chat"
    /\ \E line \in Lines : Lower(line) = "exit"
    /\ pc' = "exited"
    /\ UNCHANGED <<probes, probe, get_tools_calls, init_error, mcp_tools,
                   agent_executor, chat_history, turn>>
    /\ UNCHANGED hostVars

ClientNext == InitializeAgent \/ ChatTurn \/ Exit

ClientSpec == Init /\ [][ClientNext]_vars

\* ------------------------------------------------------ host properties

\* C1 (as amended): an INSERT without an explicit id into an existing table
\* makes add_data return True; every later read_data selecting that table
\* returns the rows add_data reported inserted and no committed call deleted
\* since; and an insert into a people table that has held no row since it
\* was created is read back with id 1.
C1_InsertedRowsAreRead ==
    /\ (last.op = "add_data" /\ last.q.k = "insert" /\ db[last.q.t].exists)
          => (last.path = "ok" /\ last.ret = TRUE)
    /\ (last.op = "read_data" /\ last.q.k = "select")
          => \A e \in added :
                e[1] = last.q.t => <<e[2], e[3]>> \in Range(last.rows)
    /\ firstInsert
          => <<1, last.q.v>> \in Range(read_data(db, open, Select("people"), "none").rows)

\* C1 witness: a read of people returns two rows inserted by earlier calls.
C1_Witness ==
    /\ last.op = "read_data"
    /\ last.q = Select("people")
    /\ {<<"people", 1, "John">>, <<"people", 2, "Alice">>} \subseteq added
    /\ Len(last.rows) = 2

\* C1 as stated: as above, but the id is 1 whenever the people table was
\* empty when the row was inserted.
C1_AsStated ==
    /\ (last.op = "add_data" /\ last.q.k = "insert" /\ db[last.q.t].exists)
          => (last.path = "ok" /\ last.ret = TRUE)
    /\ (last.op = "read_data" /\ last.q.k = "select")
          => \A e \in added :
                e[1] = last.q.t => <<e[2], e[3]>> \in Range(last.rows)
    /\ (/\ last.op = "add_data"
        /\ last.q.k = "insert"
        /\ last.q.t = "people"
        /\ last.path = "ok"
        /\ Cardinality(db["people"].rows) = 1)
          => <<1, last.q.v>> \in Range(read_data(db, open, Select("people"), "none").rows)

\* C2 as stated: given a malformed statement, add_data returns False and
\* read_data returns an empty sequence; neither raises to its caller.
C2_FailuresReturnedNeverRaised ==
    /\ (last.op = "add_data" /\ last.q.k = "malformed")
          => (last.path = "except" /\ last.ret = FALSE)
    /\ (last.op = "read_data" /\ last.q.k = "malformed")
          => (last.path = "except" /\ last.rows = <<>>)

\* C6 as stated: no connection opened by a finished call is still open.
C6_NoConnectionLeftOpen == open = 0

\* C7: read_data with its default query takes the success path and returns
\* exactly the rows of people, each once, in ascending rowid order.
C7_DefaultReadReturnsAllRows ==
    (last.op = "read_data" /\ last.q = DefaultReadQuery) =>
        /\ last.path = "ok"
        /\ Range(last.rows) = db["people"].rows
        /\ Len(last.rows) = Cardinality(db["people"].rows)
        /\ \A i, j \in DOMAIN last.rows : i < j => last.rows[i][1] < last.rows[j][1]

\* C7 witness: the default read returns two rows.
C7_Witness ==
    /\ last.op = "read_data"
    /\ last.q = DefaultReadQuery
    /\ last.path = "ok"
    /\ Len(last.rows) = 2

\* C8: when a call (create_table or add_data) issued CREATE TABLE for a table
\* that did not exist and the next call is read_data selecting that table,
\* the read takes the success path and returns no rows.
C8_CreatedTableReadsEmpty ==
    (afterCreate # "none" /\ last.op = "read_data" /\ last.q = Select(afterCreate))
        => (last.path = "ok" /\ last.rows = <<>>)

\* C8 witness: car was created by the call before a successful read of car.
C8_Witness ==
    /\ afterCreate = "car"
    /\ last.op = "read_data"
    /\ last.q = Select("car")
    /\ last.path = "ok"

\* ---------------------------------------------------- client properties

\* C3: a turn invokes at most one tool, whatever the model answers.
C3_AtMostOneToolPerTurn == turn.calls <= 1

\* C3 witness: a turn invoked a tool and was then stopped by the iteration cap.
C3_Witness ==
    /\ turn.calls = 1
    /\ turn.invocation = "returned"
    /\ turn.result = "output"
    /\ turn.output = "stopped"

\* A step of process_message: main() stays in the chat loop.
IsTurnStep == pc = "chat" /\ pc' = "chat"

\* C4: every step keeps the history as a prefix; a turn that completes with
\* an output appends the human text and then the agent output, a turn that
\* fails appends nothing, and no other step touches the history.
C4_HistoryGrowsByTurn ==
    [][/\ Len(chat_history') >= Len(chat_history)
       /\ SubSeq(chat_history', 1, Len(chat_history)) = chat_history
       /\ (IsTurnStep /\ turn'.result = "output")
             => chat_history' = chat_history \o <<Human(turn'.input), AI(turn'.output)>>
       /\ (IsTurnStep /\ turn'.result # "output") => chat_history' = chat_history
       /\ ~IsTurnStep => chat_history' = chat_history]_vars

\* C4 witness: two completed turns, then a turn whose executor raised.
C4_Witness ==
    /\ Len(chat_history) = 4
    /\ turn.result = "raise"

\* C5 (as amended): when the invocation raises, the observation is
\* "Read error" for a read_data action and "Add error" for an add_data or
\* create_table action; a failure value returned without raising is not
\* replaced by an error message: add_data's and create_table's wrapper hands
\* on what the tool returned (False stays False) and read_data's wrapper
\* answers "No data found." for an empty result; in every case the turn goes
\* on to the forced stop instead of aborting.
C5_ErrorsBecomeObservations ==
    turn.calls > 0 =>
        /\ turn.invocation = "raised"
              => turn.obs.kind = (IF turn.action = "read_data"
                                  THEN "Read error" ELSE "Add error")
        /\ (turn.invocation = "returned" /\ turn.action \in {"add_data", "create_table"})
              => turn.obs = Obs("value", turn.ret, turn.rows)
        /\ (turn.invocation = "returned" /\ turn.action = "read_data" /\ turn.rows = <<>>)
              => turn.obs.kind = "No data found."
        /\ turn.result # "raise"
        /\ turn.output = "stopped"

\* C5 witness: the host raised while serving a read_data action and the turn
\* still ended with an output.
C5_Witness ==
    /\ turn.calls = 1
    /\ turn.action = "read_data"
    /\ turn.invocation = "raised"
    /\ turn.obs.kind = "Read error"
    /\ turn.result = "output"

\* The invoked tool reported failure without raising.
FailureIndicator ==
    /\ turn.invocation = "returned"
    /\ last.path = "except"
    /\ \/ turn.hostOp = "add_data" /\ turn.ret = FALSE
       \/ turn.hostOp = "read_data" /\ turn.rows = <<>>

\* C5 as stated: a failure indicator or a raised invocation is replaced by
\* an "Add error" or "Read error" observation and the turn goes on.
C5_AsStated ==
    (turn.calls > 0 /\ (turn.invocation = "raised" \/ FailureIndicator))
        => (turn.obs.kind \in {"Add error", "Read error"} /\ turn.result # "raise")

\* C9: after a probe that met a non-200 answer or a connection failure,
\* initialize_agent has raised ConnectionError, get_tools was never called,
\* no tool is known, no executor exists, one probe was sent and no turn ran.
C9_ProbeFailureAbortsInit ==
    probe \in {"503", "ConnectTimeout", "ConnectError"} =>
        /\ pc = "aborted"
        /\ init_error = "ConnectionError"
        /\ get_tools_calls = 0
        /\ mcp_tools = <<>>
        /\ ~agent_executor
        /\ probes = 1
        /\ turn = NoTurn
        /\ chat_history = <<>>
        /\ last = NoCall

\* C9 witness: the probe met a refused connection and main() is over.
C9_Witness == probe = "ConnectError" /\ pc = "aborted"

\* C10 as stated: the host operation invoked is the one named by the chosen
\* action, with the action input as its argument.
C10_DispatchByName ==
    turn.calls > 0 => (turn.hostOp = turn.action /\ turn.arg = turn.action_input)

====
